---- MODULE Spec2Model ----
(***************************************************************************)
(* Model of the HTU21D temperature / humidity sensor driver (htu21d.c).    *)
(*                                                                         *)
(* The driver state is the two cached conversion times and the transfer    *)
(* mode.  The device is represented by its user register.  Every driver    *)
(* function is an operator that returns the set of its possible complete   *)
(* executions ("runs"), one for each combination of outcomes of the bus    *)
(* transactions it issues; a run carries the status returned, the bus /    *)
(* delay / checksum events in program order and the device register left   *)
(* behind.  An action is one call of a public function by the application. *)
(***************************************************************************)
EXTENDS Integers, Sequences, FiniteSets, TLC

VARIABLES
    dev_reg,                            \* user register held by the device
    dev_reg0,                           \* user register of the device at power-on
    htu21_temperature_conversion_time,  \* cached wait, microseconds
    htu21_humidity_conversion_time,     \* cached wait, microseconds
    i2c_master_mode,                    \* htu21_i2c_hold / htu21_i2c_no_hold
    call,                               \* record of the last completed call
    pre,                                \* driver and device state before the last call
    crc_in,                             \* input of the checksum unit check
    crc_out,                            \* result of the checksum unit check
    dew_in,                             \* input of the dew point unit check
    dew_out,                            \* result of the dew point unit check
    last,                               \* summary of the call before the last one
    thread,                             \* concurrent callers: position and locals of each
    overlapped                          \* some concurrent call ran during another one

vars == <<dev_reg, dev_reg0, htu21_temperature_conversion_time,
          htu21_humidity_conversion_time, i2c_master_mode, call, pre,
          crc_in, crc_out, dew_in, dew_out, last, thread, overlapped>>

\* the variables of the unit checks and of the concurrent callers
aux == <<crc_in, crc_out, dew_in, dew_out, thread, overlapped>>

----------------------------------------------------------------------------
(* Bit operations on non-negative integers (C operators &, |, ^).          *)

RECURSIVE BitAnd(_, _)
BitAnd(a, b) ==
    IF a = 0 \/ b = 0 THEN 0
    ELSE (a % 2) * (b % 2) + 2 * BitAnd(a \div 2, b \div 2)

RECURSIVE BitOr(_, _)
BitOr(a, b) ==
    IF a = 0 THEN b
    ELSE IF b = 0 THEN a
    ELSE (IF a % 2 = 1 \/ b % 2 = 1 THEN 1 ELSE 0) + 2 * BitOr(a \div 2, b \div 2)

RECURSIVE BitXor(_, _)
BitXor(a, b) ==
    IF a = 0 THEN b
    ELSE IF b = 0 THEN a
    ELSE ((a + b) % 2) + 2 * BitXor(a \div 2, b \div 2)

\* ~m on a uint8_t operand
Not8(m) == 255 - m

----------------------------------------------------------------------------
(* Command codes, masks and timings of htu21d.c.                           *)

HTU21_RESET_COMMAND                   == 254   \* 0xFE
HTU21_READ_TEMPERATURE_W_HOLD_COMMAND == 227   \* 0xE3
HTU21_READ_TEMPERATURE_WO_HOLD_COMMAND == 243  \* 0xF3
HTU21_READ_HUMIDITY_W_HOLD_COMMAND    == 229   \* 0xE5
HTU21_READ_HUMIDITY_WO_HOLD_COMMAND   == 245   \* 0xF5
HTU21_READ_SERIAL_FIRST_8BYTES_COMMAND == 64015 \* 0xFA0F
HTU21_READ_SERIAL_LAST_6BYTES_COMMAND == 64713 \* 0xFCC9
HTU21_WRITE_USER_REG_COMMAND          == 230   \* 0xE6
HTU21_READ_USER_REG_COMMAND           == 231   \* 0xE7

RESET_TIME == 15

HTU21_USER_REG_RESOLUTION_MASK           == 129  \* 0x81
HTU21_USER_REG_END_OF_BATTERY_MASK       == 64   \* 0x40
HTU21_USER_REG_ENABLE_ONCHIP_HEATER_MASK == 4    \* 0x04
HTU21_USER_REG_DISABLE_OTP_RELOAD_MASK   == 2    \* 0x02

\* ~(0x81 | 0x40 | 0x04 | 0x02), as it acts on a uint8_t: 0x38
HTU21_USER_REG_RESERVED_MASK ==
    Not8(BitOr(BitOr(HTU21_USER_REG_RESOLUTION_MASK, HTU21_USER_REG_END_OF_BATTERY_MASK),
               BitOr(HTU21_USER_REG_ENABLE_ONCHIP_HEATER_MASK,
                     HTU21_USER_REG_DISABLE_OTP_RELOAD_MASK)))

HTU21_USER_REG_END_OF_BATTERY_VDD_BELOW_2_25V == 64  \* 0x40
HTU21_USER_REG_ONCHIP_HEATER_ENABLE           == 4   \* 0x04

Resolutions == {"htu21_resolution_t_14b_rh_12b", "htu21_resolution_t_13b_rh_10b",
                "htu21_resolution_t_12b_rh_8b", "htu21_resolution_t_11b_rh_11b"}

\* HTU21_USER_REG_RESOLUTION_T_xxb_RH_xxb
ResolutionBits(res) ==
    CASE res = "htu21_resolution_t_14b_rh_12b" -> 0
      [] res = "htu21_resolution_t_13b_rh_10b" -> 128
      [] res = "htu21_resolution_t_12b_rh_8b"  -> 1
      [] res = "htu21_resolution_t_11b_rh_11b" -> 129

\* HTU21_TEMPERATURE_CONVERSION_TIME_T_xxb_RH_xxb
TemperatureConversionTime(res) ==
    CASE res = "htu21_resolution_t_14b_rh_12b" -> 50000
      [] res = "htu21_resolution_t_13b_rh_10b" -> 25000
      [] res = "htu21_resolution_t_12b_rh_8b"  -> 13000
      [] res = "htu21_resolution_t_11b_rh_11b" -> 7000

\* HTU21_HUMIDITY_CONVERSION_TIME_T_xxb_RH_xxb
HumidityConversionTime(res) ==
    CASE res = "htu21_resolution_t_14b_rh_12b" -> 16000
      [] res = "htu21_resolution_t_13b_rh_10b" -> 5000
      [] res = "htu21_resolution_t_12b_rh_8b"  -> 3000
      [] res = "htu21_resolution_t_11b_rh_11b" -> 8000

----------------------------------------------------------------------------
(* Bus transport (esp32_i2c.h) and the events a call leaves behind.        *)

StatusCode == {"STATUS_OK", "STATUS_ERR_OVERFLOW", "STATUS_ERR_TIMEOUT"}

Ev(kind, data, stop, st, n) ==
    [kind |-> kind, data |-> data, stop |-> stop, st |-> st, n |-> n]

\* i2c_master_write_packet_wait / i2c_master_write_packet_wait_no_stop
WriteEv(data, stop, st) == Ev("write", data, stop, st, Len(data))
\* i2c_master_read_packet_wait: data is what the device returned
ReadEv(n, st, data) == Ev("read", data, TRUE, st, n)
\* delay_ms(ms)
DelayEv(ms) == Ev("delay", <<>>, TRUE, "STATUS_OK", ms)
\* htu21_crc_check on a received payload
CrcEv(data, result) == Ev("crc", data, TRUE, result, Len(data))

\* the two tests that follow every bus transfer of the driver
I2cStatus(i2c_status) ==
    IF i2c_status = "STATUS_ERR_OVERFLOW" THEN "htu21_status_no_i2c_acknowledge"
    ELSE IF i2c_status # "STATUS_OK" THEN "htu21_status_i2c_transfer_error"
    ELSE "htu21_status_ok"

----------------------------------------------------------------------------
(* Register arithmetic of the mutators.                                    *)

\* variant: the reserved bits are written as zeros
MergeReserved_clears_reserved(reg, value) ==
    BitAnd(value, Not8(HTU21_USER_REG_RESERVED_MASK))

\* variant: the value passed is dropped, the byte read is written back
MergeReserved_drops_value(reg, value) == reg

\* htu21_write_user_register: reg &= RESERVED_MASK; reg |= value & ~RESERVED_MASK
MergeReserved(reg, value) ==
    BitOr(BitAnd(reg, HTU21_USER_REG_RESERVED_MASK),
          BitAnd(value, Not8(HTU21_USER_REG_RESERVED_MASK)))

\* variant: the resolution bits are toggled instead of cleared and set
ResolutionValue_xor(reg_value, tmp) ==
    BitXor(reg_value, BitAnd(tmp, HTU21_USER_REG_RESOLUTION_MASK))

\* variant: the resolution bits are set without being cleared first
ResolutionValue_no_clear(reg_value, tmp) ==
    BitOr(reg_value, BitAnd(tmp, HTU21_USER_REG_RESOLUTION_MASK))

\* htu21_set_resolution: reg_value &= ~RESOLUTION_MASK; reg_value |= tmp & RESOLUTION_MASK
ResolutionValue(reg_value, tmp) ==
    BitOr(BitAnd(reg_value, Not8(HTU21_USER_REG_RESOLUTION_MASK)),
          BitAnd(tmp, HTU21_USER_REG_RESOLUTION_MASK))

\* variant: the register value is built from the heater bit alone
HeaterValue_only_bit(reg_value, enable) ==
    IF enable THEN HTU21_USER_REG_ONCHIP_HEATER_ENABLE ELSE 0

\* htu21_enable_heater: reg_value |= HEATER_ENABLE;
\* htu21_disable_heater: reg_value &= ~HEATER_ENABLE
HeaterValue(reg_value, enable) ==
    IF enable
    THEN BitOr(reg_value, HTU21_USER_REG_ONCHIP_HEATER_ENABLE)
    ELSE BitAnd(reg_value, Not8(HTU21_USER_REG_ONCHIP_HEATER_ENABLE))

----------------------------------------------------------------------------
(* Static helpers of the driver.                                           *)

\* variant: a command that failed is sent a second time
htu21_write_command_retries(cmd) ==
    UNION { IF s = "STATUS_OK"
            THEN { [status |-> I2cStatus(s), events |-> <<WriteEv(<<cmd>>, TRUE, s)>>] }
            ELSE { [status |-> I2cStatus(s2),
                    events |-> <<WriteEv(<<cmd>>, TRUE, s), WriteEv(<<cmd>>, TRUE, s2)>>]
                   : s2 \in StatusCode }
          : s \in StatusCode }

htu21_write_command(cmd) ==
    { [status |-> I2cStatus(s), events |-> <<WriteEv(<<cmd>>, TRUE, s)>>] : s \in StatusCode }

\* variant: the command is sent with a stop condition
htu21_write_command_no_stop_sends_stop(cmd) ==
    { [status |-> I2cStatus(s), events |-> <<WriteEv(<<cmd>>, TRUE, s)>>] : s \in StatusCode }

htu21_write_command_no_stop(cmd) ==
    { [status |-> I2cStatus(s), events |-> <<WriteEv(<<cmd>>, FALSE, s)>>] : s \in StatusCode }

\* reg is the register the device holds; value is meaningful only when status is ok
htu21_read_user_register(reg) ==
    UNION { IF w.status # "htu21_status_ok"
            THEN { [status |-> w.status, events |-> w.events, value |-> 0] }
            ELSE { [status |-> I2cStatus(s),
                    events |-> Append(w.events,
                                      ReadEv(1, s, IF s = "STATUS_OK" THEN <<reg>> ELSE <<>>)),
                    value  |-> IF s = "STATUS_OK" THEN reg ELSE 0] : s \in StatusCode }
          : w \in htu21_write_command(HTU21_READ_USER_REG_COMMAND) }

\* variant: the value is sent as passed, without the merge of the reserved bits
htu21_write_user_register_unmerged(value, reg) ==
    UNION { IF r.status # "htu21_status_ok"
            THEN { [status |-> r.status, events |-> r.events, dev |-> reg] }
            ELSE { [status |-> I2cStatus(s),
                    events |-> Append(r.events,
                                      WriteEv(<<HTU21_WRITE_USER_REG_COMMAND, value>>, TRUE, s)),
                    dev    |-> IF s = "STATUS_OK" THEN value ELSE reg] : s \in StatusCode }
          : r \in htu21_read_user_register(reg) }

\* variant: the register is written whatever the status of the read before it
htu21_write_user_register_ignores_read_status(value, reg) ==
    UNION { LET merged == MergeReserved(r.value, value)
            IN  { [status |-> I2cStatus(s),
                   events |-> Append(r.events,
                                     WriteEv(<<HTU21_WRITE_USER_REG_COMMAND, merged>>, TRUE, s)),
                   dev    |-> IF s = "STATUS_OK" THEN merged ELSE reg] : s \in StatusCode }
          : r \in htu21_read_user_register(reg) }

\* dev is the register the device holds after the run
htu21_write_user_register(value, reg) ==
    UNION { IF r.status # "htu21_status_ok"
            THEN { [status |-> r.status, events |-> r.events, dev |-> reg] }
            ELSE LET merged == MergeReserved(r.value, value)
                 IN  { [status |-> I2cStatus(s),
                        events |-> Append(r.events,
                                          WriteEv(<<HTU21_WRITE_USER_REG_COMMAND, merged>>, TRUE, s)),
                        dev    |-> IF s = "STATUS_OK" THEN merged ELSE reg] : s \in StatusCode }
          : r \in htu21_read_user_register(reg) }

----------------------------------------------------------------------------
(* Checksum.                                                               *)

\* ~mask restricted to the 24 bits the working register can occupy
\* (result = value << 8 with a 16-bit value, and every XOR operand is below 2^24)
NotMask(mask) == 16777215 - mask

\* the while loop of htu21_crc_check; msb, mask and polynom shift right together
RECURSIVE CrcLoop(_, _, _, _)
CrcLoop(result, msb, mask, polynom) ==
    IF msb = 128 THEN result
    ELSE LET next == IF BitAnd(result, msb) # 0
                     THEN BitOr(BitAnd(BitXor(result, polynom), mask),
                                BitAnd(result, NotMask(mask)))
                     ELSE result
         IN  CrcLoop(next, msb \div 2, mask \div 2, polynom \div 2)

\* variant: polynomial x^8 + x^2 + x + 1 (0x838000 aligned) instead of 0x988000
htu21_crc_check_poly07(value, crc) ==
    IF CrcLoop(value * 256, 8388608, 16744448, 8617984) = crc
    THEN "htu21_status_ok"
    ELSE "htu21_status_crc_error"

htu21_crc_check(value, crc) ==
    IF CrcLoop(value * 256, 8388608, 16744448, 9994240) = crc
    THEN "htu21_status_ok"
    ELSE "htu21_status_crc_error"

\* the number of times the body of the while loop of htu21_crc_check is
\* executed, from the same initial values and with the same updates
RECURSIVE CrcIterations(_, _, _, _)
CrcIterations(result, msb, mask, polynom) ==
    IF msb = 128 THEN 0
    ELSE LET next == IF BitAnd(result, msb) # 0
                     THEN BitOr(BitAnd(BitXor(result, polynom), mask),
                                BitAnd(result, NotMask(mask)))
                     ELSE result
         IN  1 + CrcIterations(next, msb \div 2, mask \div 2, polynom \div 2)

----------------------------------------------------------------------------
(* Data the device can return.                                             *)

\* 3-byte measurement payloads: two data bytes and a checksum byte
AdcPayloads ==
    { <<104, 58, 124>>,     \* 0x683A, checksum 0x7C
      <<78, 133, 107>>,     \* 0x4E85, checksum 0x6B
      <<104, 58, 125>>,     \* 0x683A, one checksum bit flipped
      <<78, 133, 235>>,     \* 0x4E85, one checksum bit flipped
      <<0, 0, 0>> }

\* 8-byte serial payloads: four (byte, checksum) pairs
First8Payloads ==
    { <<72, 132, 84, 186, 85, 139, 33, 183>>,
      <<72, 133, 84, 186, 85, 139, 33, 183>>,
      <<72, 132, 84, 186, 85, 139, 33, 55>>,
      <<72, 132, 84, 187, 85, 139, 33, 183>>,
      <<72, 132, 84, 186, 85, 11, 33, 183>> }

\* 6-byte serial payloads: two (16-bit value, checksum) pairs
Last6Payloads ==
    { <<18, 52, 182, 50, 10, 176>>,
      <<18, 52, 182, 50, 10, 177>>,
      <<18, 52, 54, 50, 10, 176>> }

----------------------------------------------------------------------------
(* Conversions.                                                            *)

\* variant: no-hold mode reads right after the command, without the wait
ConversionAndReadAdc_no_wait(mode, hold_cmd, no_hold_cmd, conversion_time) ==
    LET cmds == IF mode = "htu21_i2c_hold"
                THEN htu21_write_command_no_stop(hold_cmd)
                ELSE htu21_write_command(no_hold_cmd)
        Failed(status, events) ==
            [status |-> status, events |-> events, written |-> FALSE, adc |-> 0]
    IN  UNION { IF c.status # "htu21_status_ok"
                THEN { Failed(c.status, c.events) }
                ELSE { Failed(I2cStatus(s), Append(c.events, ReadEv(3, s, <<>>)))
                       : s \in StatusCode \ {"STATUS_OK"} }
                     \cup
                     { LET _adc   == BitOr(p[1] * 256, p[2])
                           crc    == p[3]
                           status == htu21_crc_check(_adc, crc)
                       IN  [status  |-> status,
                            events  |-> c.events \o <<ReadEv(3, "STATUS_OK", p), CrcEv(p, status)>>,
                            written |-> status = "htu21_status_ok",
                            adc     |-> IF status = "htu21_status_ok" THEN _adc ELSE 0]
                       : p \in AdcPayloads }
              : c \in cmds }

\* variant: the result of the checksum test is computed but not acted upon
ConversionAndReadAdc_unchecked(mode, hold_cmd, no_hold_cmd, conversion_time) ==
    LET cmds == IF mode = "htu21_i2c_hold"
                THEN htu21_write_command_no_stop(hold_cmd)
                ELSE { [status |-> w.status,
                        events |-> Append(w.events, DelayEv(conversion_time \div 1000))]
                       : w \in htu21_write_command(no_hold_cmd) }
        Failed(status, events) ==
            [status |-> status, events |-> events, written |-> FALSE, adc |-> 0]
    IN  UNION { IF c.status # "htu21_status_ok"
                THEN { Failed(c.status, c.events) }
                ELSE { Failed(I2cStatus(s), Append(c.events, ReadEv(3, s, <<>>)))
                       : s \in StatusCode \ {"STATUS_OK"} }
                     \cup
                     { LET _adc   == BitOr(p[1] * 256, p[2])
                           crc    == p[3]
                           status == htu21_crc_check(_adc, crc)
                       IN  [status  |-> "htu21_status_ok",
                            events  |-> c.events \o <<ReadEv(3, "STATUS_OK", p), CrcEv(p, status)>>,
                            written |-> TRUE,
                            adc     |-> _adc]
                       : p \in AdcPayloads }
              : c \in cmds }

\* htu21_temperature_conversion_and_read_adc and
\* htu21_humidity_conversion_and_read_adc differ only in the two command
\* codes and in the cached wait they use
ConversionAndReadAdc(mode, hold_cmd, no_hold_cmd, conversion_time) ==
    LET cmds == IF mode = "htu21_i2c_hold"
                THEN htu21_write_command_no_stop(hold_cmd)
                ELSE { [status |-> w.status,
                        events |-> Append(w.events, DelayEv(conversion_time \div 1000))]
                       : w \in htu21_write_command(no_hold_cmd) }
        Failed(status, events) ==
            [status |-> status, events |-> events, written |-> FALSE, adc |-> 0]
    IN  UNION { IF c.status # "htu21_status_ok"
                THEN { Failed(c.status, c.events) }
                ELSE { Failed(I2cStatus(s), Append(c.events, ReadEv(3, s, <<>>)))
                       : s \in StatusCode \ {"STATUS_OK"} }
                     \cup
                     { LET _adc   == BitOr(p[1] * 256, p[2])
                           crc    == p[3]
                           status == htu21_crc_check(_adc, crc)
                       IN  [status  |-> status,
                            events  |-> c.events \o <<ReadEv(3, "STATUS_OK", p), CrcEv(p, status)>>,
                            written |-> status = "htu21_status_ok",
                            adc     |-> IF status = "htu21_status_ok" THEN _adc ELSE 0]
                       : p \in AdcPayloads }
              : c \in cmds }

htu21_temperature_conversion_and_read_adc(mode, conversion_time) ==
    ConversionAndReadAdc(mode, HTU21_READ_TEMPERATURE_W_HOLD_COMMAND,
                         HTU21_READ_TEMPERATURE_WO_HOLD_COMMAND, conversion_time)

htu21_humidity_conversion_and_read_adc(mode, conversion_time) ==
    ConversionAndReadAdc(mode, HTU21_READ_HUMIDITY_W_HOLD_COMMAND,
                         HTU21_READ_HUMIDITY_WO_HOLD_COMMAND, conversion_time)

\* (float)adc * 175.72 / 65536 - 46.85, in hundredths of a degree, rounded down
TemperatureCentiDeg(adc) == ((adc * 17572) \div 65536) - 4685

\* (float)adc * 125 / 65536 - 6, in hundredths of a percent, rounded down
HumidityCentiPct(adc) == ((adc * 12500) \div 65536) - 600

Unwritten == [written |-> FALSE, val |-> 0]
Written(v) == [written |-> TRUE, val |-> v]

\* variant: both outputs are written together, after the humidity cycle
htu21_read_temperature_and_relative_humidity_writes_at_end(mode, t_time, h_time) ==
    LET humidity_runs == htu21_humidity_conversion_and_read_adc(mode, h_time)
    IN
    UNION { IF t.status # "htu21_status_ok"
            THEN { [status |-> t.status, events |-> t.events,
                    temperature |-> Unwritten, humidity |-> Unwritten] }
            ELSE { [status      |-> h.status,
                    events      |-> t.events \o h.events,
                    temperature |-> IF h.status # "htu21_status_ok" THEN Unwritten
                                    ELSE Written(TemperatureCentiDeg(t.adc)),
                    humidity    |-> IF h.status # "htu21_status_ok" THEN Unwritten
                                    ELSE Written(HumidityCentiPct(h.adc))]
                   : h \in humidity_runs }
          : t \in htu21_temperature_conversion_and_read_adc(mode, t_time) }

htu21_read_temperature_and_relative_humidity(mode, t_time, h_time) ==
    LET humidity_runs == htu21_humidity_conversion_and_read_adc(mode, h_time)
    IN
    UNION { IF t.status # "htu21_status_ok"
            THEN { [status |-> t.status, events |-> t.events,
                    temperature |-> Unwritten, humidity |-> Unwritten] }
            ELSE { [status      |-> h.status,
                    events      |-> t.events \o h.events,
                    temperature |-> Written(TemperatureCentiDeg(t.adc)),
                    humidity    |-> IF h.status # "htu21_status_ok" THEN Unwritten
                                    ELSE Written(HumidityCentiPct(h.adc))]
                   : h \in humidity_runs }
          : t \in htu21_temperature_conversion_and_read_adc(mode, t_time) }


----------------------------------------------------------------------------
(* Serial number.                                                          *)

\* the two for loops of htu21_read_serial_number: the checksum tests in
\* program order (C index i is index i + 1 here)
SerialChecks(rcv_data) ==
    [k \in 1..6 |->
        IF k <= 4
        THEN LET i == 2 * k - 1
             IN  CrcEv(<<rcv_data[i], rcv_data[i + 1]>>,
                       htu21_crc_check(rcv_data[i], rcv_data[i + 1]))
        ELSE LET i == 9 + 3 * (k - 5)
             IN  CrcEv(<<rcv_data[i], rcv_data[i + 1], rcv_data[i + 2]>>,
                       htu21_crc_check(BitOr(rcv_data[i] * 256, rcv_data[i + 1]),
                                       rcv_data[i + 2]))]

\* variant: the checksum byte of the first 16-bit group taken as a data byte
SerialBytes_shifted(rcv_data) ==
    <<rcv_data[1], rcv_data[3], rcv_data[5], rcv_data[7],
      rcv_data[9], rcv_data[11], rcv_data[12], rcv_data[13]>>

\* the serial number as its eight bytes, most significant first
\* (byte k is shifted left by 56, 48, ..., 0 bits)
SerialBytes(rcv_data) ==
    <<rcv_data[1], rcv_data[3], rcv_data[5], rcv_data[7],
      rcv_data[9], rcv_data[10], rcv_data[12], rcv_data[13]>>

NoSerial == [written |-> FALSE, val |-> <<>>]

CmdBytes(cmd) == <<(cmd \div 256) % 256, cmd % 256>>

htu21_read_serial_number ==
    LET Failed(status, events) ==
            [status |-> status, events |-> events, serial_number |-> NoSerial]
        Verify(events, rcv_data) ==
            LET checks == SerialChecks(rcv_data)
                bad    == {k \in 1..6 : checks[k].st # "htu21_status_ok"}
                n      == IF bad = {} THEN 6 ELSE CHOOSE k \in bad : \A j \in bad : k <= j
            IN  IF bad # {}
                THEN Failed("htu21_status_crc_error", events \o SubSeq(checks, 1, n))
                ELSE [status |-> "htu21_status_ok", events |-> events \o checks,
                      serial_number |-> [written |-> TRUE, val |-> SerialBytes(rcv_data)]]
        \* second half: command write (status ignored), 6-byte read, checks
        Last(events, first8) ==
            UNION { LET ev == Append(events,
                                     WriteEv(CmdBytes(HTU21_READ_SERIAL_LAST_6BYTES_COMMAND), FALSE, w))
                    IN  { Failed(I2cStatus(r), Append(ev, ReadEv(6, r, <<>>)))
                          : r \in StatusCode \ {"STATUS_OK"} }
                        \cup
                        { Verify(Append(ev, ReadEv(6, "STATUS_OK", p)), first8 \o p)
                          : p \in Last6Payloads }
                  : w \in StatusCode }
    IN  \* first half: command write (status ignored), 8-byte read
        UNION { LET ev == <<WriteEv(CmdBytes(HTU21_READ_SERIAL_FIRST_8BYTES_COMMAND), FALSE, w)>>
                IN  { Failed(I2cStatus(r), Append(ev, ReadEv(8, r, <<>>)))
                      : r \in StatusCode \ {"STATUS_OK"} }
                    \cup
                    UNION { Last(Append(ev, ReadEv(8, "STATUS_OK", p)), p)
                            : p \in First8Payloads }
              : w \in StatusCode }

----------------------------------------------------------------------------
(* Device.                                                                 *)

\* a soft reset returns the device to its default resolution (the driver
\* resets its cached waits on that assumption); the other bits are kept
DeviceReset(reg) == BitAnd(reg, Not8(HTU21_USER_REG_RESOLUTION_MASK))

----------------------------------------------------------------------------
(* Public functions.  t_time and h_time are the cached waits on entry.     *)

\* variant: the transfer mode is left as it was
htu21_init_keeps_mode(mode, t_time, h_time) ==
    [mode |-> mode, t_time |-> t_time, h_time |-> h_time]

htu21_init(mode, t_time, h_time) ==
    [mode |-> "htu21_i2c_no_hold", t_time |-> t_time, h_time |-> h_time]

htu21_set_i2c_master_mode(mode) == mode

htu21_is_connected ==
    { [status |-> IF s # "STATUS_OK" THEN "false" ELSE "true",
       events |-> <<WriteEv(<<>>, TRUE, s)>>] : s \in StatusCode }

\* variant: the reset wait is performed whatever the status of the write
htu21_reset_always_waits(reg, t_time, h_time) ==
    { [status |-> w.status,
       events |-> Append(w.events, DelayEv(RESET_TIME)),
       dev    |-> IF w.status # "htu21_status_ok" THEN reg ELSE DeviceReset(reg),
       t_time |-> IF w.status # "htu21_status_ok" THEN t_time
                  ELSE TemperatureConversionTime("htu21_resolution_t_14b_rh_12b"),
       h_time |-> IF w.status # "htu21_status_ok" THEN h_time
                  ELSE HumidityConversionTime("htu21_resolution_t_14b_rh_12b")]
      : w \in htu21_write_command(HTU21_RESET_COMMAND) }

\* variant: the cached waits are reset before the status of the write is tested
htu21_reset_early_assign(reg, t_time, h_time) ==
    { [status |-> w.status,
       events |-> IF w.status # "htu21_status_ok" THEN w.events
                  ELSE Append(w.events, DelayEv(RESET_TIME)),
       dev    |-> IF w.status # "htu21_status_ok" THEN reg ELSE DeviceReset(reg),
       t_time |-> TemperatureConversionTime("htu21_resolution_t_14b_rh_12b"),
       h_time |-> HumidityConversionTime("htu21_resolution_t_14b_rh_12b")]
      : w \in htu21_write_command(HTU21_RESET_COMMAND) }

htu21_reset(reg, t_time, h_time) ==
    { IF w.status # "htu21_status_ok"
      THEN [status |-> w.status, events |-> w.events, dev |-> reg,
            t_time |-> t_time, h_time |-> h_time]
      ELSE [status |-> "htu21_status_ok",
            events |-> Append(w.events, DelayEv(RESET_TIME)),
            dev    |-> DeviceReset(reg),
            t_time |-> TemperatureConversionTime("htu21_resolution_t_14b_rh_12b"),
            h_time |-> HumidityConversionTime("htu21_resolution_t_14b_rh_12b")]
      : w \in htu21_write_command(HTU21_RESET_COMMAND) }

\* value is the argument passed to htu21_write_user_register, -1 when it is not called
htu21_set_resolution(res, reg, t_time, h_time) ==
    LET tmp == ResolutionBits(res)
    IN  UNION { IF r.status # "htu21_status_ok"
                THEN { [status |-> r.status, events |-> r.events, dev |-> reg,
                        t_time |-> t_time, h_time |-> h_time, value |-> -1] }
                ELSE LET reg_value == ResolutionValue(r.value, tmp)
                     IN  { [status |-> w.status,
                            events |-> r.events \o w.events,
                            dev    |-> w.dev,
                            t_time |-> TemperatureConversionTime(res),
                            h_time |-> HumidityConversionTime(res),
                            value  |-> reg_value]
                           : w \in htu21_write_user_register(reg_value, reg) }
              : r \in htu21_read_user_register(reg) }

htu21_get_battery_status(reg) ==
    { [status |-> r.status, events |-> r.events,
       bat    |-> IF r.status # "htu21_status_ok" THEN "unwritten"
                  ELSE IF BitAnd(r.value, HTU21_USER_REG_END_OF_BATTERY_VDD_BELOW_2_25V) # 0
                       THEN "htu21_battery_low" ELSE "htu21_battery_ok"]
      : r \in htu21_read_user_register(reg) }

\* the heater bit is set (enable) or cleared (disable) in the value read
HeaterUpdate(reg, enable) ==
    UNION { IF r.status # "htu21_status_ok"
            THEN { [status |-> r.status, events |-> r.events, dev |-> reg, value |-> -1] }
            ELSE LET reg_value == HeaterValue(r.value, enable)
                 IN  { [status |-> w.status, events |-> r.events \o w.events,
                        dev |-> w.dev, value |-> reg_value]
                       : w \in htu21_write_user_register(reg_value, reg) }
          : r \in htu21_read_user_register(reg) }

htu21_enable_heater(reg) == HeaterUpdate(reg, TRUE)

htu21_disable_heater(reg) == HeaterUpdate(reg, FALSE)

\* variant: the register is written back after it has been read
htu21_get_heater_status_writes_back(reg) ==
    UNION { IF r.status # "htu21_status_ok"
            THEN { [status |-> r.status, events |-> r.events, heater |-> "unwritten"] }
            ELSE { [status |-> w.status, events |-> r.events \o w.events,
                    heater |-> IF BitAnd(r.value, HTU21_USER_REG_ONCHIP_HEATER_ENABLE) # 0
                               THEN "htu21_heater_on" ELSE "htu21_heater_off"]
                   : w \in htu21_write_user_register(r.value, reg) }
          : r \in htu21_read_user_register(reg) }

htu21_get_heater_status(reg) ==
    { [status |-> r.status, events |-> r.events,
       heater |-> IF r.status # "htu21_status_ok" THEN "unwritten"
                  ELSE IF BitAnd(r.value, HTU21_USER_REG_ONCHIP_HEATER_ENABLE) # 0
                       THEN "htu21_heater_on" ELSE "htu21_heater_off"]
      : r \in htu21_read_user_register(reg) }

----------------------------------------------------------------------------
(* State machine: one action per call of a driver function.  The record of *)
(* a call is what the application observes when the call returns; it is    *)
(* dropped (Return) before the application makes its next call, the driver *)
(* being idle between calls.                                               *)

\* power-on registers of the device: default resolution, heater off, OTP
\* reload disabled, any battery flag and any reserved bits
InitRegs ==
    {r \in 0..255 : /\ BitAnd(r, HTU21_USER_REG_RESOLUTION_MASK) = 0
                    /\ BitAnd(r, HTU21_USER_REG_ENABLE_ONCHIP_HEATER_MASK) = 0
                    /\ BitAnd(r, HTU21_USER_REG_DISABLE_OTP_RELOAD_MASK) # 0}

Snapshot ==
    [dev_reg |-> dev_reg,
     t_time  |-> htu21_temperature_conversion_time,
     h_time  |-> htu21_humidity_conversion_time,
     mode    |-> i2c_master_mode]

CallRecord(op, arg, value, status, events) ==
    [op |-> op, arg |-> arg, value |-> value, status |-> status, events |-> events,
     temperature |-> Unwritten, humidity |-> Unwritten, serial_number |-> NoSerial,
     bat |-> "unwritten", heater |-> "unwritten"]

NoCall == CallRecord("none", "none", -1, "none", <<>>)

NoLast == [op |-> "none", arg |-> "none", status |-> "none"]

Threads == {1, 2}

\* a caller that has not entered the driver
IdleThread ==
    [op |-> "none", arg |-> "none", pc |-> "idle", reg_value |-> 0, reg |-> 0,
     status |-> "none"]

\* no concurrent caller is in the driver and no call summary is kept
ConcIdle ==
    /\ last = NoLast
    /\ thread = [t \in Threads |-> IdleThread]
    /\ overlapped = FALSE

\* the dew point check and the concurrent callers are not in use
AuxIdle ==
    /\ dew_in = [temperature |-> 0, relative_humidity |-> 0]
    /\ dew_out = [domain_error |-> FALSE, result |-> "idle"]
    /\ ConcIdle

Idle == call.op = "none"

\* values of the static storage before any call; the enumerators of
\* i2c_master_mode are declared outside the sources at hand, so the
\* zero-initialised mode is either of them
Init ==
    /\ dev_reg \in InitRegs
    /\ dev_reg0 = dev_reg
    /\ htu21_temperature_conversion_time = 50000
    /\ htu21_humidity_conversion_time = 16000
    /\ i2c_master_mode \in {"htu21_i2c_hold", "htu21_i2c_no_hold"}
    /\ call = NoCall
    /\ pre = Snapshot
    /\ crc_in = [value |-> 0, crc |-> 0]
    /\ crc_out = "idle"
    /\ AuxIdle

CallInit ==
    LET s == htu21_init(i2c_master_mode, htu21_temperature_conversion_time,
                        htu21_humidity_conversion_time)
    IN  /\ Idle
        /\ i2c_master_mode' = s.mode
        /\ htu21_temperature_conversion_time' = s.t_time
        /\ htu21_humidity_conversion_time' = s.h_time
        /\ call' = CallRecord("htu21_init", "none", -1, "void", <<>>)
        /\ pre' = Snapshot
        /\ UNCHANGED <<dev_reg, dev_reg0, aux, last>>

CallSetI2cMasterMode ==
    /\ Idle
    /\ \E mode \in {"htu21_i2c_hold", "htu21_i2c_no_hold"} :
        /\ i2c_master_mode' = htu21_set_i2c_master_mode(mode)
        /\ call' = CallRecord("htu21_set_i2c_master_mode", mode, -1, "void", <<>>)
        /\ pre' = Snapshot
        /\ UNCHANGED <<dev_reg, dev_reg0, htu21_temperature_conversion_time,
                       htu21_humidity_conversion_time, aux, last>>

CallIsConnected ==
    /\ Idle
    /\ \E run \in htu21_is_connected :
        /\ call' = CallRecord("htu21_is_connected", "none", -1, run.status, run.events)
        /\ pre' = Snapshot
        /\ UNCHANGED <<dev_reg, dev_reg0, htu21_temperature_conversion_time,
                       htu21_humidity_conversion_time, i2c_master_mode, aux, last>>

CallReset ==
    /\ Idle
    /\ \E run \in htu21_reset(dev_reg, htu21_temperature_conversion_time,
                           htu21_humidity_conversion_time) :
        /\ dev_reg' = run.dev
        /\ htu21_temperature_conversion_time' = run.t_time
        /\ htu21_humidity_conversion_time' = run.h_time
        /\ call' = CallRecord("htu21_reset", "none", -1, run.status, run.events)
        /\ pre' = Snapshot
        /\ UNCHANGED <<dev_reg0, i2c_master_mode, aux, last>>

CallSetResolution ==
    /\ Idle
    /\ \E res \in Resolutions :
      \E run \in htu21_set_resolution(res, dev_reg, htu21_temperature_conversion_time,
                                      htu21_humidity_conversion_time) :
        /\ dev_reg' = run.dev
        /\ htu21_temperature_conversion_time' = run.t_time
        /\ htu21_humidity_conversion_time' = run.h_time
        /\ call' = CallRecord("htu21_set_resolution", res, run.value, run.status, run.events)
        /\ pre' = Snapshot
        /\ UNCHANGED <<dev_reg0, i2c_master_mode, aux, last>>

CallGetBatteryStatus ==
    /\ Idle
    /\ \E run \in htu21_get_battery_status(dev_reg) :
        /\ call' = [CallRecord("htu21_get_battery_status", "none", -1, run.status, run.events)
                    EXCEPT !.bat = run.bat]
        /\ pre' = Snapshot
        /\ UNCHANGED <<dev_reg, dev_reg0, htu21_temperature_conversion_time,
                       htu21_humidity_conversion_time, i2c_master_mode, aux, last>>

CallEnableHeater ==
    /\ Idle
    /\ \E run \in htu21_enable_heater(dev_reg) :
        /\ dev_reg' = run.dev
        /\ call' = CallRecord("htu21_enable_heater", "none", run.value, run.status, run.events)
        /\ pre' = Snapshot
        /\ UNCHANGED <<dev_reg0, htu21_temperature_conversion_time,
                       htu21_humidity_conversion_time, i2c_master_mode, aux, last>>

CallDisableHeater ==
    /\ Idle
    /\ \E run \in htu21_disable_heater(dev_reg) :
        /\ dev_reg' = run.dev
        /\ call' = CallRecord("htu21_disable_heater", "none", run.value, run.status, run.events)
        /\ pre' = Snapshot
        /\ UNCHANGED <<dev_reg0, htu21_temperature_conversion_time,
                       htu21_humidity_conversion_time, i2c_master_mode, aux, last>>

CallGetHeaterStatus ==
    /\ Idle
    /\ \E run \in htu21_get_heater_status(dev_reg) :
        /\ call' = [CallRecord("htu21_get_heater_status", "none", -1, run.status, run.events)
                    EXCEPT !.heater = run.heater]
        /\ pre' = Snapshot
        /\ UNCHANGED <<dev_reg, dev_reg0, htu21_temperature_conversion_time,
                       htu21_humidity_conversion_time, i2c_master_mode, aux, last>>

CallReadSerialNumber ==
    /\ Idle
    /\ \E run \in htu21_read_serial_number :
        /\ call' = [CallRecord("htu21_read_serial_number", "none", -1, run.status, run.events)
                    EXCEPT !.serial_number = run.serial_number]
        /\ pre' = Snapshot
        /\ UNCHANGED <<dev_reg, dev_reg0, htu21_temperature_conversion_time,
                       htu21_humidity_conversion_time, i2c_master_mode, aux, last>>

CallReadTemperatureAndRelativeHumidity ==
    /\ Idle
    /\ \E run \in htu21_read_temperature_and_relative_humidity(
                   i2c_master_mode, htu21_temperature_conversion_time,
                   htu21_humidity_conversion_time) :
        /\ call' = [CallRecord("htu21_read_temperature_and_relative_humidity", "none", -1,
                               run.status, run.events)
                    EXCEPT !.temperature = run.temperature, !.humidity = run.humidity]
        /\ pre' = Snapshot
        /\ UNCHANGED <<dev_reg, dev_reg0, htu21_temperature_conversion_time,
                       htu21_humidity_conversion_time, i2c_master_mode, aux, last>>

Return ==
    /\ ~Idle
    /\ call' = NoCall
    /\ pre' = Snapshot
    /\ UNCHANGED <<dev_reg, dev_reg0, htu21_temperature_conversion_time,
                   htu21_humidity_conversion_time, i2c_master_mode, aux, last>>

Next ==
    \/ Return
    \/ CallInit
    \/ CallSetI2cMasterMode
    \/ CallIsConnected
    \/ CallReset
    \/ CallSetResolution
    \/ CallGetBatteryStatus
    \/ CallEnableHeater
    \/ CallDisableHeater
    \/ CallGetHeaterStatus
    \/ CallReadSerialNumber
    \/ CallReadTemperatureAndRelativeHumidity

Spec == Init /\ [][Next]_vars

----------------------------------------------------------------------------
(* Register harness: the operations that address the user register, and a  *)
(* direct call of the static htu21_write_user_register with any of a set   *)
(* of values whose reserved bits differ from those of the device.          *)

WriteValues == {0, 255, 56, 199, 16, 133, 106}

CallWriteUserRegister ==
    /\ Idle
    /\ \E value \in WriteValues :
        \E run \in htu21_write_user_register(value, dev_reg) :
          /\ dev_reg' = run.dev
          /\ call' = CallRecord("htu21_write_user_register", "none", value,
                                run.status, run.events)
          /\ pre' = Snapshot
          /\ UNCHANGED <<dev_reg0, htu21_temperature_conversion_time,
                         htu21_humidity_conversion_time, i2c_master_mode, aux, last>>

NextReg ==
    \/ Return
    \/ CallWriteUserRegister
    \/ CallReset
    \/ CallSetResolution
    \/ CallGetBatteryStatus
    \/ CallEnableHeater
    \/ CallDisableHeater
    \/ CallGetHeaterStatus

SpecReg == Init /\ [][NextReg]_vars

----------------------------------------------------------------------------
(* Checksum harness: htu21_crc_check applied to one (value, crc) input.    *)

MaxCrcSamples == 40
CrcStride == 1613

CrcValues ==
    { (k * CrcStride) % 65536 : k \in 0..MaxCrcSamples }
    \cup { 26682, 20101, 65535, 255, 256, 32768, 1 }

InitCrc ==
    /\ dev_reg = 2
    /\ dev_reg0 = dev_reg
    /\ htu21_temperature_conversion_time = 50000
    /\ htu21_humidity_conversion_time = 16000
    /\ i2c_master_mode = "htu21_i2c_no_hold"
    /\ call = NoCall
    /\ pre = Snapshot
    /\ crc_in \in [value : CrcValues, crc : 0..255]
    /\ crc_out = "pending"
    /\ AuxIdle

CrcCheck ==
    /\ crc_out = "pending"
    /\ crc_out' = htu21_crc_check(crc_in.value, crc_in.crc)
    /\ UNCHANGED <<dev_reg, dev_reg0, htu21_temperature_conversion_time,
                   htu21_humidity_conversion_time, i2c_master_mode, call, pre, crc_in,
                   dew_in, dew_out, last, thread, overlapped>>

NextCrc == CrcCheck

SpecCrc == InitCrc /\ [][NextCrc]_vars

----------------------------------------------------------------------------
(* Dew point harness: htu21_compute_dew_point applied to one input.        *)
(* Temperatures and humidities are in hundredths of a degree / percent.    *)
(* The function returns a float and has no other way to report anything;   *)
(* the model keeps the class of the float it returns.                      *)

\* HTU21_CONSTANT_C, in hundredths
HTU21_CONSTANT_C == 23566

\* pow(10, A - B / (temperature + C)): the divisor is 0 at temperature = -C,
\* B / 0 is +infinity and pow(10, -infinity) is 0; over the range of the
\* sensor (-46.85 .. 128.87 degrees) the result is a positive finite number
PartialPressure(temperature) ==
    IF temperature + HTU21_CONSTANT_C = 0 THEN "zero" ELSE "positive"

\* -B / (log10(relative_humidity * partial_pressure / 100) - A) - C:
\* log10 of a negative number is NaN, log10(0) is -infinity and then the
\* quotient is 0 and the result -C
htu21_compute_dew_point(temperature, relative_humidity) ==
    LET partial_pressure == PartialPressure(temperature)
        dew_point ==
            IF partial_pressure = "zero" THEN "minus_C"
            ELSE IF relative_humidity < 0 THEN "NaN"
            ELSE IF relative_humidity = 0 THEN "minus_C"
            ELSE "finite"
    IN  [domain_error |-> FALSE, result |-> dew_point]

MaxDewSamples == 11
DewTemperatureStep == 1500
DewHumidityStep == 600

\* the singular temperature -C and temperatures the sensor conversion can give
DewTemperatures ==
    { -HTU21_CONSTANT_C } \cup { -4685 + k * DewTemperatureStep : k \in 0..MaxDewSamples }

\* humidities the sensor conversion can give (-6 .. 119 percent)
DewHumidities ==
    { -600, -1, 0, 1, 10000, 11900 } \cup { -600 + k * DewHumidityStep : k \in 0..MaxDewSamples }

InitDew ==
    /\ dev_reg = 2
    /\ dev_reg0 = dev_reg
    /\ htu21_temperature_conversion_time = 50000
    /\ htu21_humidity_conversion_time = 16000
    /\ i2c_master_mode = "htu21_i2c_no_hold"
    /\ call = NoCall
    /\ pre = Snapshot
    /\ crc_in = [value |-> 0, crc |-> 0]
    /\ crc_out = "idle"
    /\ dew_in \in [temperature : DewTemperatures, relative_humidity : DewHumidities]
    /\ dew_out = [domain_error |-> FALSE, result |-> "pending"]
    /\ ConcIdle

ComputeDewPoint ==
    /\ dew_out.result = "pending"
    /\ dew_out' = htu21_compute_dew_point(dew_in.temperature, dew_in.relative_humidity)
    /\ UNCHANGED <<dev_reg, dev_reg0, htu21_temperature_conversion_time,
                   htu21_humidity_conversion_time, i2c_master_mode, call, pre,
                   crc_in, crc_out, dew_in, last, thread, overlapped>>

NextDew == ComputeDewPoint

SpecDew == InitDew /\ [][NextDew]_vars

----------------------------------------------------------------------------
(* Consecutive calls of htu21_set_resolution: the summary of a call is     *)
(* kept when it returns, so that the next call is seen with its            *)
(* predecessor.                                                            *)

ReturnHist ==
    /\ ~Idle
    /\ call' = NoCall
    /\ pre' = Snapshot
    /\ last' = [op |-> call.op, arg |-> call.arg, status |-> call.status]
    /\ UNCHANGED <<dev_reg, dev_reg0, htu21_temperature_conversion_time,
                   htu21_humidity_conversion_time, i2c_master_mode, aux>>

NextHist ==
    \/ ReturnHist
    \/ CallSetResolution

SpecHist == Init /\ [][NextHist]_vars

----------------------------------------------------------------------------
(* Concurrent callers.  Two callers enter a register mutator each, with no *)
(* lock around the driver; a step is one bus transaction, or one           *)
(* assignment to a cached wait, of one caller.  The position of a caller   *)
(* is the statement it executes next:                                      *)
(*   read_cmd   0xE7 command of the mutator's htu21_read_user_register     *)
(*   read       1-byte read of the same                                    *)
(*   assign_t, assign_h   the two assignments of htu21_set_resolution      *)
(*   write_cmd, write_read   the re-read inside htu21_write_user_register  *)
(*   write      the (0xE6, byte) transaction                               *)

Mutators ==
    { [op |-> "htu21_enable_heater", arg |-> "none"],
      [op |-> "htu21_disable_heater", arg |-> "none"] }
    \cup { [op |-> "htu21_set_resolution", arg |-> res] : res \in Resolutions }

Busy(t) == thread[t].pc \notin {"idle", "done"}

\* a step of caller t: the other variables of the sequential model are not used
ConcFrame(t) ==
    /\ overlapped' = (overlapped \/ \E u \in Threads \ {t} : Busy(u))
    /\ UNCHANGED <<dev_reg0, i2c_master_mode, call, pre, crc_in, crc_out,
                   dew_in, dew_out, last>>

TimesUnchanged ==
    UNCHANGED <<htu21_temperature_conversion_time, htu21_humidity_conversion_time>>

\* the transfer failed: the function returns the status of the failure
Fail(t, s) == [thread EXCEPT ![t].pc = "done", ![t].status = I2cStatus(s)]

ConcCall ==
    \E t \in Threads : \E m \in Mutators :
        /\ thread[t].pc = "idle"
        /\ thread' = [thread EXCEPT ![t].op = m.op, ![t].arg = m.arg, ![t].pc = "read_cmd"]
        /\ UNCHANGED dev_reg
        /\ TimesUnchanged
        /\ ConcFrame(t)

\* htu21_write_command(HTU21_READ_USER_REG_COMMAND), first or second time
ConcReadCommand ==
    \E t \in Threads : \E s \in StatusCode :
        /\ thread[t].pc \in {"read_cmd", "write_cmd"}
        /\ thread' = IF s # "STATUS_OK" THEN Fail(t, s)
                     ELSE [thread EXCEPT ![t].pc = IF thread[t].pc = "read_cmd"
                                                   THEN "read" ELSE "write_read"]
        /\ UNCHANGED dev_reg
        /\ TimesUnchanged
        /\ ConcFrame(t)

\* the read of the mutator, and the computation of reg_value from it
ConcRead ==
    \E t \in Threads : \E s \in StatusCode :
        /\ thread[t].pc = "read"
        /\ thread' =
              IF s # "STATUS_OK" THEN Fail(t, s)
              ELSE [thread EXCEPT
                      ![t].reg_value =
                          IF thread[t].op = "htu21_set_resolution"
                          THEN ResolutionValue(dev_reg, ResolutionBits(thread[t].arg))
                          ELSE HeaterValue(dev_reg, thread[t].op = "htu21_enable_heater"),
                      ![t].pc = IF thread[t].op = "htu21_set_resolution"
                                THEN "assign_t" ELSE "write_cmd"]
        /\ UNCHANGED dev_reg
        /\ TimesUnchanged
        /\ ConcFrame(t)

\* htu21_set_resolution: the two assignments to the cached waits
ConcAssignTimes ==
    \E t \in Threads :
        /\ thread[t].pc \in {"assign_t", "assign_h"}
        /\ IF thread[t].pc = "assign_t"
           THEN /\ htu21_temperature_conversion_time' =
                       TemperatureConversionTime(thread[t].arg)
                /\ UNCHANGED htu21_humidity_conversion_time
                /\ thread' = [thread EXCEPT ![t].pc = "assign_h"]
           ELSE /\ htu21_humidity_conversion_time' = HumidityConversionTime(thread[t].arg)
                /\ UNCHANGED htu21_temperature_conversion_time
                /\ thread' = [thread EXCEPT ![t].pc = "write_cmd"]
        /\ UNCHANGED dev_reg
        /\ ConcFrame(t)

\* the read inside htu21_write_user_register
ConcReread ==
    \E t \in Threads : \E s \in StatusCode :
        /\ thread[t].pc = "write_read"
        /\ thread' = IF s # "STATUS_OK" THEN Fail(t, s)
                     ELSE [thread EXCEPT ![t].reg = dev_reg, ![t].pc = "write"]
        /\ UNCHANGED dev_reg
        /\ TimesUnchanged
        /\ ConcFrame(t)

\* the merge and the (0xE6, byte) transaction
ConcWrite ==
    \E t \in Threads : \E s \in StatusCode :
        /\ thread[t].pc = "write"
        /\ thread' = [thread EXCEPT ![t].pc = "done", ![t].status = I2cStatus(s)]
        /\ dev_reg' = IF s = "STATUS_OK"
                      THEN MergeReserved(thread[t].reg, thread[t].reg_value)
                      ELSE dev_reg
        /\ TimesUnchanged
        /\ ConcFrame(t)

NextConc ==
    \/ ConcCall
    \/ ConcReadCommand
    \/ ConcRead
    \/ ConcAssignTimes
    \/ ConcReread
    \/ ConcWrite

SpecConc == Init /\ [][NextConc]_vars

----------------------------------------------------------------------------
(* Concurrent callers, every operation that addresses the user register or *)
(* resets the device: the register mutators above, the two register        *)
(* queries and htu21_reset.  Further positions of a caller:                *)
(*   query_cmd, query_read   htu21_read_user_register of a query           *)
(*   reset_cmd               the 0xFE command of htu21_reset               *)
(*   reset_assign_t, reset_assign_h, reset_delay   the rest of htu21_reset *)

RegisterQueries == {"htu21_get_battery_status", "htu21_get_heater_status"}

ConcCallQuery ==
    \E t \in Threads : \E q \in RegisterQueries :
        /\ thread[t].pc = "idle"
        /\ thread' = [thread EXCEPT ![t].op = q, ![t].pc = "query_cmd"]
        /\ UNCHANGED dev_reg
        /\ TimesUnchanged
        /\ ConcFrame(t)

ConcQueryCommand ==
    \E t \in Threads : \E s \in StatusCode :
        /\ thread[t].pc = "query_cmd"
        /\ thread' = IF s # "STATUS_OK" THEN Fail(t, s)
                     ELSE [thread EXCEPT ![t].pc = "query_read"]
        /\ UNCHANGED dev_reg
        /\ TimesUnchanged
        /\ ConcFrame(t)

ConcQueryRead ==
    \E t \in Threads : \E s \in StatusCode :
        /\ thread[t].pc = "query_read"
        /\ thread' = IF s # "STATUS_OK" THEN Fail(t, s)
                     ELSE [thread EXCEPT ![t].reg_value = dev_reg, ![t].pc = "done",
                                         ![t].status = "htu21_status_ok"]
        /\ UNCHANGED dev_reg
        /\ TimesUnchanged
        /\ ConcFrame(t)

ConcCallReset ==
    \E t \in Threads :
        /\ thread[t].pc = "idle"
        /\ thread' = [thread EXCEPT ![t].op = "htu21_reset", ![t].pc = "reset_cmd"]
        /\ UNCHANGED dev_reg
        /\ TimesUnchanged
        /\ ConcFrame(t)

\* htu21_write_command(HTU21_RESET_COMMAND): the device resets when it gets it
ConcResetCommand ==
    \E t \in Threads : \E s \in StatusCode :
        /\ thread[t].pc = "reset_cmd"
        /\ thread' = IF s # "STATUS_OK" THEN Fail(t, s)
                     ELSE [thread EXCEPT ![t].pc = "reset_assign_t"]
        /\ dev_reg' = IF s = "STATUS_OK" THEN DeviceReset(dev_reg) ELSE dev_reg
        /\ TimesUnchanged
        /\ ConcFrame(t)

\* htu21_reset: the two assignments of the default waits
ConcResetAssignTimes ==
    \E t \in Threads :
        /\ thread[t].pc \in {"reset_assign_t", "reset_assign_h"}
        /\ IF thread[t].pc = "reset_assign_t"
           THEN /\ htu21_temperature_conversion_time' =
                       TemperatureConversionTime("htu21_resolution_t_14b_rh_12b")
                /\ UNCHANGED htu21_humidity_conversion_time
                /\ thread' = [thread EXCEPT ![t].pc = "reset_assign_h"]
           ELSE /\ htu21_humidity_conversion_time' =
                       HumidityConversionTime("htu21_resolution_t_14b_rh_12b")
                /\ UNCHANGED htu21_temperature_conversion_time
                /\ thread' = [thread EXCEPT ![t].pc = "reset_delay"]
        /\ UNCHANGED dev_reg
        /\ ConcFrame(t)

\* delay_ms(RESET_TIME), then return htu21_status_ok
ConcResetDelay ==
    \E t \in Threads :
        /\ thread[t].pc = "reset_delay"
        /\ thread' = [thread EXCEPT ![t].pc = "done", ![t].status = "htu21_status_ok"]
        /\ UNCHANGED dev_reg
        /\ TimesUnchanged
        /\ ConcFrame(t)

NextConcAll ==
    \/ ConcCall
    \/ ConcReadCommand
    \/ ConcRead
    \/ ConcAssignTimes
    \/ ConcReread
    \/ ConcWrite
    \/ ConcCallQuery
    \/ ConcQueryCommand
    \/ ConcQueryRead
    \/ ConcCallReset
    \/ ConcResetCommand
    \/ ConcResetAssignTimes
    \/ ConcResetDelay

SpecConcAll == Init /\ [][NextConcAll]_vars

----------------------------------------------------------------------------
(* Properties.                                                             *)

IsBusEvent(e) == e.kind \in {"write", "read"}

\* the events of the last call that are write-register transactions (0xE6, byte)
IsRegisterWrite(e) == e.kind = "write" /\ Len(e.data) = 2 /\ e.data[1] = 230

TimingsUnchanged ==
    /\ htu21_temperature_conversion_time = pre.t_time
    /\ htu21_humidity_conversion_time = pre.h_time

C2_FailedSetResolutionKeepsTimings ==
    (call.op = "htu21_set_resolution" /\ call.status # "htu21_status_ok")
        => TimingsUnchanged

\* C3: the cached conversion times are always the table entry of the
\* resolution bits (bit 7, bit 0) the device register holds.
C3_TimingsMatchDevice ==
    \E res \in Resolutions :
        /\ ResolutionBits(res) = BitAnd(dev_reg, 129)
        /\ htu21_temperature_conversion_time = TemperatureConversionTime(res)
        /\ htu21_humidity_conversion_time = HumidityConversionTime(res)

\* C4: in every call the first bus transaction that fails is the last bus
\* transaction of the call, and the status returned is the one of that failure.
C4_FirstBusFailureAborts ==
    \A i \in 1..Len(call.events) :
        (IsBusEvent(call.events[i]) /\ call.events[i].st # "STATUS_OK") =>
            /\ \A j \in (i + 1)..Len(call.events) : ~IsBusEvent(call.events[j])
            /\ call.status = IF call.op = "htu21_is_connected" THEN "false"
                             ELSE I2cStatus(call.events[i].st)

\* C5 as stated: every operation other than htu21_set_resolution leaves the
\* cached conversion times unchanged.
C5_OnlySetResolutionChangesTimings ==
    (call.op \notin {"none", "htu21_set_resolution"}) => TimingsUnchanged

\* C5 as amended: the cached conversion times are changed only by
\* htu21_set_resolution and by a successful htu21_reset, which restores the
\* default pair (50000, 16000); every other operation, and a failed
\* htu21_reset, leaves both unchanged.
C5_OnlySetResolutionAndResetChangeTimings ==
    (call.op \notin {"none", "htu21_set_resolution"}) =>
        IF call.op = "htu21_reset" /\ call.status = "htu21_status_ok"
        THEN /\ htu21_temperature_conversion_time = 50000
             /\ htu21_humidity_conversion_time = 16000
        ELSE TimingsUnchanged

\* a htu21_reset failed while the cached pair was not the default one
C5_Witness ==
    /\ call.op = "htu21_reset"
    /\ call.status # "htu21_status_ok"
    /\ pre.t_time # 50000
    /\ htu21_temperature_conversion_time = pre.t_time

\* C6 as stated: after htu21_init the mode is no_hold and the cached
\* conversion times are the default ones, whatever was executed before.
C6_InitRestoresDefaults ==
    call.op = "htu21_init" =>
        /\ i2c_master_mode = "htu21_i2c_no_hold"
        /\ htu21_temperature_conversion_time = 50000
        /\ htu21_humidity_conversion_time = 16000

\* C6 as amended: after htu21_init the mode is no_hold whatever was executed
\* before, and the cached conversion times are the ones held before the
\* call (the default pair only if they were the default pair already).
C6_InitSetsModeKeepsTimings ==
    call.op = "htu21_init" =>
        /\ i2c_master_mode = "htu21_i2c_no_hold"
        /\ TimingsUnchanged

\* htu21_init was called in hold mode with a non-default cached pair
C6_Witness ==
    /\ call.op = "htu21_init"
    /\ pre.mode = "htu21_i2c_hold"
    /\ pre.t_time = 7000
    /\ htu21_temperature_conversion_time = 7000

EventShape(e) ==
    [kind |-> e.kind, data |-> IF e.kind = "write" THEN e.data ELSE <<>>,
     stop |-> e.stop, n |-> e.n]

Shapes(events) == [i \in 1..Len(events) |-> EventShape(events[i])]

NoBusFailure(events) ==
    \A i \in 1..Len(events) : IsBusEvent(events[i]) => events[i].st = "STATUS_OK"

NoHoldDefaultSequence ==
    << [kind |-> "write", data |-> <<243>>, stop |-> TRUE, n |-> 1],
       [kind |-> "delay", data |-> <<>>, stop |-> TRUE, n |-> 50],
       [kind |-> "read",  data |-> <<>>, stop |-> TRUE, n |-> 3],
       [kind |-> "crc",   data |-> <<>>, stop |-> TRUE, n |-> 3],
       [kind |-> "write", data |-> <<245>>, stop |-> TRUE, n |-> 1],
       [kind |-> "delay", data |-> <<>>, stop |-> TRUE, n |-> 16],
       [kind |-> "read",  data |-> <<>>, stop |-> TRUE, n |-> 3],
       [kind |-> "crc",   data |-> <<>>, stop |-> TRUE, n |-> 3] >>

\* C7: in no_hold mode with the default cached pair and no bus failure a
\* temperature and humidity read is: write 0xF3 with stop, wait 50 ms, read
\* 3 bytes, checksum test, write 0xF5 with stop, wait 16 ms, read 3 bytes,
\* checksum test; it stops after the first four only when the temperature
\* checksum does not match, and returns ok only after all eight.
C7_NoHoldOrdering ==
    (/\ call.op = "htu21_read_temperature_and_relative_humidity"
     /\ pre.mode = "htu21_i2c_no_hold"
     /\ pre.t_time = 50000 /\ pre.h_time = 16000
     /\ NoBusFailure(call.events)) =>
        /\ Len(call.events) \in {4, 8}
        /\ Shapes(call.events) = SubSeq(NoHoldDefaultSequence, 1, Len(call.events))
        /\ (Len(call.events) = 4 <=> call.events[4].st # "htu21_status_ok")
        /\ (call.status = "htu21_status_ok" => Len(call.events) = 8)

\* a complete successful read in no_hold mode at the default resolution
C7_Witness ==
    /\ call.op = "htu21_read_temperature_and_relative_humidity"
    /\ pre.mode = "htu21_i2c_no_hold"
    /\ pre.t_time = 50000 /\ pre.h_time = 16000
    /\ call.status = "htu21_status_ok"
    /\ Len(call.events) = 8

\* C8: in hold mode every command of a temperature and humidity read is 0xE3
\* or 0xE5 written without stop (0xE3 first), a successful command write is
\* immediately followed by the 3-byte read, and no delay occurs in the call.
C8_HoldMode ==
    (call.op = "htu21_read_temperature_and_relative_humidity"
     /\ pre.mode = "htu21_i2c_hold") =>
        /\ Len(call.events) >= 1
        /\ call.events[1].kind = "write" /\ call.events[1].data = <<227>>
        /\ \A i \in 1..Len(call.events) :
              LET e == call.events[i]
              IN  /\ e.kind # "delay"
                  /\ e.kind = "write" =>
                        /\ e.data \in {<<227>>, <<229>>}
                        /\ ~e.stop
                        /\ (e.data = <<229>> => i > 1)
                        /\ (e.st = "STATUS_OK" =>
                               /\ i < Len(call.events)
                               /\ call.events[i + 1].kind = "read"
                               /\ call.events[i + 1].n = 3)
                        /\ (e.st # "STATUS_OK" => i = Len(call.events))
                  /\ e.kind = "read" =>
                        /\ i > 1
                        /\ call.events[i - 1].kind = "write"
                        /\ call.events[i - 1].st = "STATUS_OK"

\* a complete successful read in hold mode
C8_Witness ==
    /\ call.op = "htu21_read_temperature_and_relative_humidity"
    /\ pre.mode = "htu21_i2c_hold"
    /\ call.status = "htu21_status_ok"
    /\ Len(call.events) = 6

\* the 3-byte payloads received by the last call, in order
Payloads(events) ==
    LET reads == SelectSeq(events, LAMBDA e : e.kind = "read" /\ e.st = "STATUS_OK")
    IN  [i \in 1..Len(reads) |-> reads[i].data]

PayloadValid(p) == htu21_crc_check(p[1] * 256 + p[2], p[3]) = "htu21_status_ok"

\* C9: a temperature and humidity read returns ok only if it received two
\* payloads and both pass the checksum test; if a received payload fails the
\* test the call returns the checksum error and the output of that payload
\* (temperature for the first, humidity for the second) is not written.
C9_ChecksumGated ==
    call.op = "htu21_read_temperature_and_relative_humidity" =>
        LET ps == Payloads(call.events)
        IN  /\ call.status = "htu21_status_ok" =>
                  /\ Len(ps) = 2
                  /\ PayloadValid(ps[1]) /\ PayloadValid(ps[2])
            /\ (Len(ps) >= 1 /\ ~PayloadValid(ps[1])) =>
                  /\ call.status = "htu21_status_crc_error"
                  /\ ~call.temperature.written
                  /\ ~call.humidity.written
            /\ (Len(ps) >= 2 /\ ~PayloadValid(ps[2])) =>
                  /\ call.status = "htu21_status_crc_error"
                  /\ ~call.humidity.written
            /\ call.temperature.written => (Len(ps) >= 1 /\ PayloadValid(ps[1]))
            /\ call.humidity.written => (Len(ps) = 2 /\ PayloadValid(ps[2]))

\* the humidity payload of a read failed the checksum test after a valid
\* temperature payload
C9_Witness ==
    /\ call.op = "htu21_read_temperature_and_relative_humidity"
    /\ call.status = "htu21_status_crc_error"
    /\ call.temperature.written
    /\ ~call.humidity.written
    /\ Len(Payloads(call.events)) = 2

\* reference CRC-8: polynomial 0x131 (x^8 + x^5 + x^4 + 1), most significant
\* bit first, initial remainder 0, no reflection, as an 8-bit shift register
RECURSIVE Crc8Bits(_, _)
Crc8Bits(rem, n) ==
    IF n = 0 THEN rem
    ELSE Crc8Bits(IF rem >= 128 THEN BitXor((rem * 2) % 256, 49) ELSE (rem * 2) % 256,
                  n - 1)

Crc8Ref(v) == Crc8Bits(BitXor(Crc8Bits(v \div 256, 8), v % 256), 8)

\* C10: htu21_crc_check(v, c) returns ok exactly when c is the reference
\* CRC-8 of the two bytes of v; in particular it fails when one bit of the
\* correct checksum is flipped.
C10_CrcCheckIsReferenceCrc ==
    crc_out \in {"htu21_status_ok", "htu21_status_crc_error"} =>
        (crc_out = "htu21_status_ok" <=> crc_in.crc = Crc8Ref(crc_in.value))

\* the test rejected a checksum that differs from the correct one in one bit
C10_Witness ==
    /\ crc_out = "htu21_status_crc_error"
    /\ crc_in.value = 26682
    /\ crc_in.crc = BitXor(Crc8Ref(crc_in.value), 16)

\* the bytes received by the successful reads of the last call, concatenated
Received(events) ==
    LET reads == SelectSeq(events, LAMBDA e : e.kind = "read" /\ e.st = "STATUS_OK")
    IN  IF Len(reads) = 2 THEN reads[1].data \o reads[2].data ELSE <<>>

\* the six checksums of a 14-byte serial payload against the reference CRC-8
\* (C bytes 1, 3, 5, 7 over bytes 0, 2, 4, 6; byte 10 over 8-9; byte 13 over 11-12)
SerialChecksumsValid(rcv) ==
    /\ \A k \in {1, 3, 5, 7} : rcv[k + 1] = Crc8Ref(rcv[k])
    /\ rcv[11] = Crc8Ref(rcv[9] * 256 + rcv[10])
    /\ rcv[14] = Crc8Ref(rcv[12] * 256 + rcv[13])

\* C11: when both read transactions of htu21_read_serial_number succeed, the
\* call returns ok exactly when all six checksums are valid, and then writes
\* the received bytes 0, 2, 4, 6, 8, 9, 11, 12, most significant first;
\* otherwise it returns the checksum error and writes no serial number.
C11_SerialNumberAssembly ==
    (call.op = "htu21_read_serial_number" /\ Len(Received(call.events)) = 14) =>
        LET rcv == Received(call.events)
        IN  /\ call.status = "htu21_status_ok" <=> SerialChecksumsValid(rcv)
            /\ SerialChecksumsValid(rcv) =>
                  /\ call.serial_number.written
                  /\ call.serial_number.val =
                         <<rcv[1], rcv[3], rcv[5], rcv[7], rcv[9], rcv[10], rcv[12], rcv[13]>>
            /\ ~SerialChecksumsValid(rcv) =>
                  /\ call.status = "htu21_status_crc_error"
                  /\ ~call.serial_number.written

\* a serial number was assembled from a fully valid payload
C11_Witness ==
    /\ call.op = "htu21_read_serial_number"
    /\ call.status = "htu21_status_ok"
    /\ call.serial_number.val = <<72, 84, 85, 33, 18, 52, 50, 10>>

\* C12: a successful htu21_set_resolution(r) that directly follows a
\* successful htu21_set_resolution(r) leaves the device register and the
\* cached conversion times as the first call left them.
C12_SetResolutionIdempotent ==
    (/\ call.op = "htu21_set_resolution"
     /\ call.status = "htu21_status_ok"
     /\ last.op = "htu21_set_resolution"
     /\ last.status = "htu21_status_ok"
     /\ last.arg = call.arg) =>
        /\ dev_reg = pre.dev_reg
        /\ TimingsUnchanged

\* the 11-bit resolution was set twice in a row, both calls succeeding
C12_Witness ==
    /\ call.op = "htu21_set_resolution"
    /\ call.status = "htu21_status_ok"
    /\ last = [op |-> "htu21_set_resolution", arg |-> "htu21_resolution_t_11b_rh_11b",
               status |-> "htu21_status_ok"]
    /\ call.arg = last.arg
    /\ BitAnd(dev_reg, 129) = 129

\* C13: a successful htu21_set_resolution(r) leaves the resolution bits of
\* the device register and the cached waits at the table entry of r:
\* 14b/12b 0x00 (50000, 16000); 13b/10b 0x80 (25000, 5000);
\* 12b/8b 0x01 (13000, 3000); 11b/11b 0x81 (7000, 8000).
C13_SetResolutionTable ==
    (call.op = "htu21_set_resolution" /\ call.status = "htu21_status_ok") =>
        <<BitAnd(dev_reg, 129), htu21_temperature_conversion_time,
          htu21_humidity_conversion_time>> =
            CASE call.arg = "htu21_resolution_t_14b_rh_12b" -> <<0, 50000, 16000>>
              [] call.arg = "htu21_resolution_t_13b_rh_10b" -> <<128, 25000, 5000>>
              [] call.arg = "htu21_resolution_t_12b_rh_8b"  -> <<1, 13000, 3000>>
              [] call.arg = "htu21_resolution_t_11b_rh_11b" -> <<129, 7000, 8000>>

\* the 12-bit resolution was set on a device that was at the 13-bit one
C13_Witness ==
    /\ call.op = "htu21_set_resolution"
    /\ call.status = "htu21_status_ok"
    /\ call.arg = "htu21_resolution_t_12b_rh_8b"
    /\ BitAnd(pre.dev_reg, 129) = 128
    /\ BitAnd(dev_reg, 129) = 1

StatusReturning(op) ==
    op \notin {"none", "htu21_init", "htu21_set_i2c_master_mode", "htu21_is_connected"}

\* C14: in every status-returning operation a bus write that reports
\* Overflow makes the call return NoAcknowledge and a bus write that reports
\* Timeout makes it return TransferError.
C14_WriteFailureStatus ==
    StatusReturning(call.op) =>
        \A i \in 1..Len(call.events) :
            call.events[i].kind = "write" =>
                /\ call.events[i].st = "STATUS_ERR_OVERFLOW" =>
                       call.status = "htu21_status_no_i2c_acknowledge"
                /\ call.events[i].st = "STATUS_ERR_TIMEOUT" =>
                       call.status = "htu21_status_i2c_transfer_error"

\* C15: htu21_reset issues exactly one bus transaction, the write of 0xFE
\* with stop, no read and no checksum test; it returns ok, TransferError or
\* NoAcknowledge; the 15 ms wait follows the write exactly when it succeeded.
C15_Reset ==
    call.op = "htu21_reset" =>
        /\ Len(call.events) >= 1
        /\ EventShape(call.events[1]) =
               [kind |-> "write", data |-> <<254>>, stop |-> TRUE, n |-> 1]
        /\ \A i \in 2..Len(call.events) : call.events[i].kind = "delay"
        /\ call.status \in {"htu21_status_ok", "htu21_status_i2c_transfer_error",
                            "htu21_status_no_i2c_acknowledge"}
        /\ (call.status = "htu21_status_ok" <=> call.events[1].st = "STATUS_OK")
        /\ IF call.events[1].st = "STATUS_OK"
           THEN Len(call.events) = 2 /\ call.events[2].n = 15
           ELSE Len(call.events) = 1

\* a reset whose command write failed
C15_Witness ==
    /\ call.op = "htu21_reset"
    /\ call.status = "htu21_status_i2c_transfer_error"
    /\ Len(call.events) = 1

\* C17: in no_hold mode a failed measurement command write is the last event
\* of the call: neither the conversion wait nor the read follows it.
C17_FailedCommandReturnsAtOnce ==
    (call.op = "htu21_read_temperature_and_relative_humidity"
     /\ pre.mode = "htu21_i2c_no_hold") =>
        \A i \in 1..Len(call.events) :
            (call.events[i].kind = "write" /\ call.events[i].st # "STATUS_OK") =>
                i = Len(call.events)

\* the bits of the register outside the field of a mutator
OutsideField(op, byte) ==
    IF op = "htu21_set_resolution" THEN BitAnd(byte, 126) ELSE BitAnd(byte, 251)

C19_ReadBeforeWrite ==
    /\ \A i \in 1..Len(call.events) :
          IsRegisterWrite(call.events[i]) =>
              /\ i >= 3
              /\ EventShape(call.events[i - 2]) =
                     [kind |-> "write", data |-> <<231>>, stop |-> TRUE, n |-> 1]
              /\ call.events[i - 2].st = "STATUS_OK"
              /\ call.events[i - 1].kind = "read"
              /\ call.events[i - 1].n = 1
              /\ call.events[i - 1].st = "STATUS_OK"
              /\ call.events[i - 1].data = <<pre.dev_reg>>
              /\ BitAnd(call.events[i].data[2], 56) = BitAnd(call.events[i - 1].data[1], 56)
    /\ \A j \in 1..Len(call.events) :
          (IsBusEvent(call.events[j]) /\ call.events[j].st # "STATUS_OK") =>
              \A i \in (j + 1)..Len(call.events) : ~IsRegisterWrite(call.events[i])

\* a mutator re-read the register and wrote it
C19_Witness ==
    /\ call.op = "htu21_disable_heater"
    /\ call.status = "htu21_status_ok"
    /\ Len(call.events) = 5
    /\ IsRegisterWrite(call.events[5])
    /\ dev_reg # pre.dev_reg

\* C16: htu21_compute_dew_point signals a domain error whenever the relative
\* humidity is not positive or the temperature is -235.66.
C16_DewPointDomainError ==
    (/\ dew_out.result \notin {"idle", "pending"}
     /\ (dew_in.relative_humidity <= 0 \/ dew_in.temperature = -23566)) =>
        dew_out.domain_error

\* both concurrent callers have returned ok
BothReturnedOk ==
    \A t \in Threads : thread[t].pc = "done" /\ thread[t].status = "htu21_status_ok"

\* the update of caller t is in the device register
UpdatePresent(t) ==
    CASE thread[t].op = "htu21_enable_heater"  -> BitAnd(dev_reg, 4) = 4
      [] thread[t].op = "htu21_disable_heater" -> BitAnd(dev_reg, 4) = 0
      [] thread[t].op = "htu21_set_resolution" ->
             BitAnd(dev_reg, 129) = ResolutionBits(thread[t].arg)

\* one caller changes the heater bit and the other the resolution bits
DifferentFields ==
    (thread[1].op = "htu21_set_resolution") # (thread[2].op = "htu21_set_resolution")

\* C20: the register read-modify-write is not atomic.  When a heater mutator
\* and htu21_set_resolution have both returned ok and the device register
\* lacks one of the two updates, the two calls overlapped: calls made one
\* after the other never lose an update.  (That the loss does occur is the
\* witness.)
C20_UpdateLostOnlyByOverlap ==
    (BothReturnedOk /\ DifferentFields /\ \E t \in Threads : ~UpdatePresent(t))
        => overlapped

\* htu21_enable_heater and htu21_set_resolution both returned ok, and the
\* heater bit is not set in the device register
C20_Witness ==
    /\ BothReturnedOk
    /\ thread[1].op = "htu21_enable_heater"
    /\ thread[2].op = "htu21_set_resolution"
    /\ thread[2].arg = "htu21_resolution_t_11b_rh_11b"
    /\ BitAnd(dev_reg, 129) = 129
    /\ BitAnd(dev_reg, 4) = 0

\* the bus transactions of the last call, in program order
BusEvents == SelectSeq(call.events, IsBusEvent)

\* the checksum tests of the last call, in program order
CrcEvents == SelectSeq(call.events, LAMBDA e : e.kind = "crc")

\* the 16-bit (or 8-bit) value a checksum test was applied to
CrcEventValue(e) ==
    IF Len(e.data) = 3 THEN BitOr(e.data[1] * 256, e.data[2]) ELSE e.data[1]

\* the largest number of bus transactions of a call of op
MaxBusTransactions(op) ==
    CASE op \in {"htu21_set_resolution", "htu21_enable_heater", "htu21_disable_heater"} -> 5
      [] op \in {"htu21_read_temperature_and_relative_humidity",
                 "htu21_read_serial_number"} -> 4
      [] op \in {"htu21_get_battery_status", "htu21_get_heater_status"} -> 2
      [] op = "htu21_write_user_register" -> 3
      [] op \in {"htu21_is_connected", "htu21_reset"} -> 1
      [] OTHER -> 0

\* C21: every call returns, whatever the outcomes of its bus transactions:
\* a completed call carries a returned status and at most 5 bus
\* transactions for htu21_set_resolution and the heater mutators, at most 4
\* for the temperature / humidity read and the serial number read, and every
\* checksum test in it ran the loop of htu21_crc_check exactly 16 times;
\* the driver is then ready for the next call.
C21_CallsReturnWithinBounds ==
    ~Idle =>
        /\ call.status \in {"void", "true", "false", "htu21_status_ok", "htu21_status_no_i2c_acknowledge",
                            "htu21_status_i2c_transfer_error", "htu21_status_crc_error"}
        /\ Len(BusEvents) <= MaxBusTransactions(call.op)
        /\ \A i \in 1..Len(CrcEvents) :
               CrcIterations(CrcEventValue(CrcEvents[i]) * 256,
                             8388608, 16744448, 9994240) = 16
        /\ ENABLED Return

\* htu21_set_resolution used its 5 bus transactions and the last one timed out
C21_Witness ==
    /\ call.op = "htu21_set_resolution"
    /\ Len(BusEvents) = 5
    /\ BusEvents[5].st = "STATUS_ERR_TIMEOUT"
    /\ call.status = "htu21_status_i2c_transfer_error"

\* a humidity measurement command is among the bus transactions of the last call
HumidityCommandIssued ==
    \E i \in 1..Len(call.events) :
        /\ call.events[i].kind = "write"
        /\ call.events[i].data \in {<<HTU21_READ_HUMIDITY_W_HOLD_COMMAND>>,
                                    <<HTU21_READ_HUMIDITY_WO_HOLD_COMMAND>>}

\* the k-th measurement cycle of the last call got as far as a passed checksum
\* test (the first test is that of the temperature, the second of the humidity)
CycleSucceeded(k) ==
    Len(CrcEvents) >= k /\ CrcEvents[k].st = "htu21_status_ok"

\* C22: in htu21_read_temperature_and_relative_humidity, when the temperature
\* cycle fails (bus error or checksum mismatch) no humidity command is issued
\* and neither output is written; when the temperature cycle succeeds and the
\* humidity cycle fails, the error is returned with the temperature output
\* written (with the converted value) and the humidity output not written.
C22_PartialOutputsOnFailure ==
    call.op = "htu21_read_temperature_and_relative_humidity" =>
        /\ ~CycleSucceeded(1) =>
              /\ call.status # "htu21_status_ok"
              /\ ~HumidityCommandIssued
              /\ ~call.temperature.written
              /\ ~call.humidity.written
        /\ (CycleSucceeded(1) /\ ~CycleSucceeded(2)) =>
              /\ call.status # "htu21_status_ok"
              /\ HumidityCommandIssued
              /\ call.temperature = Written(TemperatureCentiDeg(CrcEventValue(CrcEvents[1])))
              /\ ~call.humidity.written

\* the temperature was read and converted, then the humidity payload failed
\* its checksum test
C22_Witness ==
    /\ call.op = "htu21_read_temperature_and_relative_humidity"
    /\ CycleSucceeded(1)
    /\ Len(CrcEvents) = 2
    /\ call.status = "htu21_status_crc_error"
    /\ call.temperature.written
    /\ ~call.humidity.written

\* the query and measurement operations
Queries ==
    {"htu21_is_connected", "htu21_get_battery_status", "htu21_get_heater_status",
     "htu21_read_serial_number", "htu21_read_temperature_and_relative_humidity"}

\* C23: the query and measurement operations never issue the write-register
\* command 0xE6 (the device register is left as it was) and never change the
\* cached timing pair or the transfer mode; the transfer mode is changed only by htu21_init and
\* htu21_set_i2c_master_mode, so it survives htu21_reset and every failed
\* operation.
C23_QueriesKeepDriverState ==
    /\ call.op \in Queries =>
          /\ \A i \in 1..Len(call.events) :
                ~(call.events[i].kind = "write" /\ Len(call.events[i].data) >= 1
                  /\ call.events[i].data[1] = HTU21_WRITE_USER_REG_COMMAND)
          /\ TimingsUnchanged
          /\ i2c_master_mode = pre.mode
          /\ dev_reg = pre.dev_reg
    /\ call.op \notin {"none", "htu21_init", "htu21_set_i2c_master_mode"} =>
          i2c_master_mode = pre.mode

\* a successful htu21_reset in hold mode that restored the default waits:
\* the mode is still hold
C23_Witness ==
    /\ call.op = "htu21_reset"
    /\ call.status = "htu21_status_ok"
    /\ pre.t_time # 50000
    /\ htu21_temperature_conversion_time = 50000
    /\ i2c_master_mode = "htu21_i2c_hold"

\* C24: under any interleaving of concurrent register operations and
\* resets on the same device, with no lock and with any bus failures, the
\* reserved bits (mask 0x38) of the device register keep the value they had
\* at power-on: every write-register transaction writes back reserved bits
\* that were read from the device.
C24_ReservedBitsNeverChange ==
    BitAnd(dev_reg, HTU21_USER_REG_RESERVED_MASK)
        = BitAnd(dev_reg0, HTU21_USER_REG_RESERVED_MASK)

\* two overlapping mutators have both written a device whose reserved bits
\* are 101, and the register is not what it was
C24_Witness ==
    /\ overlapped
    /\ BothReturnedOk
    /\ thread[1].op = "htu21_enable_heater"
    /\ thread[2].op = "htu21_set_resolution"
    /\ BitAnd(dev_reg0, HTU21_USER_REG_RESERVED_MASK) = 40
    /\ dev_reg # dev_reg0

====
